---- MODULE Spec2Model ----
(***************************************************************************)
(* Model of viewer.js of mayara-gui: the page bootstrap (window.onload),   *)
(* the readiness gate (pendingRadarData / radarLoaded), the spoke stream   *)
(* session (the webSocket handlers created by radarLoaded) and the         *)
(* reconnect timer (restart); then the heading subscriber and the heading  *)
(* mode toggle, the control callback (controlUpdate) with the no-transmit  *)
(* zones, and the pure functions formatRangeValue, formatRangeNautical and *)
(* buildMayaraLegend, each under a specification of its own.               *)
(*                                                                         *)
(* JavaScript runs every handler to completion on one event loop, so each  *)
(* handler (and each continuation of window.onload between two awaits) is  *)
(* one action.  The collaborators that are not part of viewer.js           *)
(* (render_webgpu.js, control.js, api.js, the WebSocket peers) are         *)
(* represented by the calls viewer.js makes on them, recorded in `calls`   *)
(* for the handler that ran last, and by the events they deliver.          *)
(***************************************************************************)
EXTENDS Integers, Sequences, FiniteSets, TLC

\* ------------------------------------------------------------------ bounds
MaxDescriptors == 2   \* descriptors with controls delivered by control.js
MaxSpokes      == 2   \* spokes in one decoded frame
MaxEntries     == 2   \* update entries in one heading message
MaxZone        == 1   \* largest no-transmit zone index
MaxMeters      == 4000  \* largest range handed to the formatters
MaxPixelValues == 258   \* largest pixel value count handed to the legend

\* --------------------------------------------------------------- constants
RESTART_DELAY == 15000
HEADING_RETRY_DELAY == 5000
NAUTICAL_MILE == 1852
LEGEND_SIZE == 256

\* ---------------------------------------------------------------- domains
RadarIds    == {1, 2}
Ranges      == {0, 1, 2}               \* spoke.range; 0 is "no range"
PageId      == 1                       \* urlParams.get("id")
PowerStates == {"standby", "off", "transmit"}
GPUFailures == {"no-api", "no-adapter", "adapter-error"}

\* pendingRadarData = null
NoRadar == [id |-> 0, controls |-> FALSE, seq |-> 0]

\* the spokes of one frame: consecutive angles from 0, any ranges
RangeSeqs == UNION {[1..n -> Ranges] : n \in 0..MaxSpokes}
SpokeSeqs == {[i \in 1..Len(rs) |-> [angle |-> i - 1, range |-> rs[i]]] :
                rs \in RangeSeqs}
NoFrame   == [kind |-> "none", spokes |-> <<>>]
Frames    == {[kind |-> "empty", spokes |-> <<>>],
              [kind |-> "garbage", spokes |-> <<>>]}
             \cup {[kind |-> "msg", spokes |-> s] : s \in SpokeSeqs}

\* heading values (radians, taken whole) and the messages of the heading
\* socket: the update entries that are read before the handler is done, each
\* with "its path is navigation.headingTrue" and its value, and whether the
\* handler ends in the catch clause (text that is no JSON has no entries)
Headings       == {0, 1, 2}
HeadingEntries == [match : BOOLEAN, value : Headings]
HeadingMsgs    ==
  [entries : UNION {[1..n -> HeadingEntries] : n \in 0..MaxEntries},
   bad : BOOLEAN]
NoHeadingMsg   == [entries |-> << >>, bad |-> FALSE]
NoRotation     == [applied |-> FALSE, value |-> 0]

\* no-transmit zones: an element of noTransmitAngles is undefined (never
\* written), null, or an array of a start and an end slot
ZoneIds    == 0..MaxZone
ZoneValues == {10, 20}
NoValue    == -1
Unwritten  == [kind |-> "undefined", start |-> NoValue, end |-> NoValue]
Cleared    == [kind |-> "null", start |-> NoValue, end |-> NoValue]

\* the arguments of controlUpdate: what the control's name says (which of
\* the handler's tests it passes, whether it contains "start", its first run
\* of digits or NoValue when it has none) and the control value
Controls ==
  [kind : {"Range"}, start : {FALSE}, digits : {NoValue}, value : Ranges,
   enabled : {TRUE}, power : {""}]
  \cup [kind : {"No Transmit"}, start : BOOLEAN,
        digits : ZoneIds \cup {NoValue}, value : ZoneValues,
        enabled : BOOLEAN, power : {""}]
  \cup [kind : {"power"}, start : {FALSE}, digits : {NoValue}, value : {0},
        enabled : {TRUE}, power : PowerStates]
  \cup [kind : {"other"}, start : {FALSE}, digits : {NoValue}, value : {0},
        enabled : BOOLEAN, power : {""}]
NoControl ==
  [kind |-> "none", start |-> FALSE, digits |-> NoValue, value |-> 0,
   enabled |-> FALSE, power |-> "", thrown |-> FALSE]

\* the pure functions: brands, ranges in half metres, texts, legends
Brands   == {"Navico", "Furuno"}
HalfMeters == 0..(2 * MaxMeters)
NoText   == [form |-> "none", n |-> 0, d |-> 1, unit |-> ""]
NoFormat == [fn |-> "none", brand |-> "", v2 |-> 0, out |-> NoText]
PixelInputs == (-1)..MaxPixelValues
NoLegend == [pixelValues |-> 0, table |-> << >>]
NaN      == -999

\* one call made on a collaborator: function name and two integer arguments
Call(fn, a, b) == [fn |-> fn, a |-> a, b |-> b]

\* the calls of one function among a handler's calls, in order
FnCalls(cs, fn) == SelectSeq(cs, LAMBDA c : c.fn = fn)
HasCall(cs, fns) == \E i \in 1..Len(cs) : cs[i].fn \in fns

VARIABLES
  pc,                \* position of window.onload
  webgpuAvailable,   \* result of checkWebGPU: "unknown", "yes" or "no"
  renderer,          \* the render surface: constructed, ready, range, standby
  protobufPromise,   \* "none", "pending", "resolved", "rejected"
  RadarMessage,      \* TRUE once root.lookupType has set it
  pendingRadarData,  \* the readiness gate's buffer
  sockets,           \* spoke sockets that are open, each with its closure r
  timers,            \* restart timers not yet fired, in firing order
  headingSocket,     \* "none" or "open"
  drains,            \* number of times the bootstrap drained the buffer
  nDescriptors,      \* descriptors with controls delivered so far
  discarded,         \* history: seq of the descriptors the buffer lost
  rangesSet,         \* history: ranges setRange was called with for a spoke
  last,              \* the handler that ran last and its input
  calls,             \* the calls the last handler made, in order
  standaloneMode,    \* isStandaloneMode(): "unknown", "standalone", "signalk"
  headingOpen,       \* number of heading sockets that are open
  headingTimers,     \* number of resubscription timers not yet fired
  headingMode,       \* "headingUp" or "northUp"
  trueHeading,       \* the heading received last
  rotation,          \* the rotation applied last to the render surface
  headingMsg,        \* the heading message handled last
  noTransmitAngles,  \* the no-transmit zones, by zone index
  control,           \* the control update handled last and how it ended
  formatted,         \* a range to format and the text it is given
  legend             \* a pixel value count and the legend built for it

\* the state of the heading subscriber and of the heading mode toggle
headingVars ==
  <<standaloneMode, headingOpen, headingTimers, headingMode, trueHeading,
    rotation, headingMsg>>

\* the state of the control callback
controlVars == <<noTransmitAngles, control>>

\* the arguments and results of the pure functions
fnVars == <<formatted, legend>>

vars == <<pc, webgpuAvailable, renderer, protobufPromise, RadarMessage,
          pendingRadarData, sockets, timers, headingSocket, drains,
          nDescriptors, discarded, rangesSet, last, calls, headingVars,
          controlVars, fnVars>>

Last(op, d, frame) == [op |-> op, d |-> d, frame |-> frame]

\* module load: lines 20-29 and 629
PageInit ==
  /\ pc = "start"
  /\ webgpuAvailable = "unknown"
  /\ renderer = [constructed |-> FALSE, ready |-> FALSE, range |-> 0,
                 standby |-> FALSE]
  /\ protobufPromise = "none"
  /\ RadarMessage = FALSE
  /\ pendingRadarData = NoRadar
  /\ sockets = {}
  /\ timers = <<>>
  /\ headingSocket = "none"
  /\ drains = 0
  /\ nDescriptors = 0
  /\ discarded = {}
  /\ rangesSet = {}
  /\ last = Last("init", NoRadar, NoFrame)
  /\ calls = <<>>
  /\ standaloneMode = "unknown"
  /\ headingOpen = 0
  /\ headingTimers = 0
  /\ headingMode = "headingUp"
  /\ trueHeading = 0
  /\ rotation = NoRotation
  /\ headingMsg = NoHeadingMsg
  /\ noTransmitAngles = [k \in ZoneIds |-> Unwritten]
  /\ control = NoControl

Init ==
  /\ PageInit
  /\ formatted = NoFormat
  /\ legend = NoLegend

\* ------------------------------------------------------------ render surface
\* render_webgpu.js is not part of the sources: the surface sets its own
\* `ready` flag when its asynchronous initialisation completes (initPromise
\* resolves), and setRange stores the range that `renderer.range` reads back.
RendererSetRange(rdr, range) == [rdr EXCEPT !.range = range]

\* ------------------------------------------------------------ radarLoaded
\* line 642: if (!renderer || !renderer.ready)
RendererNotReady == ~renderer.constructed \/ ~renderer.ready

\* a buffer that keeps the descriptor it already holds
BufferDescriptorKeepFirst(r) ==
  IF pendingRadarData = NoRadar THEN r ELSE pendingRadarData

\* line 643: pendingRadarData = r
BufferDescriptor(r) == r

\* lines 652-654
IsStandby(power) == power = "standby" \/ power = "off"

\* lines 647-681: the session constructed from descriptor r
SessionCalls(r, power) ==
  << Call("setLegend", r.seq, 0), Call("setSpokes", r.seq, 0),
     Call("setPixelValues", r.seq, 0), Call("setBrand", r.seq, 0) >>
  \o (IF IsStandby(power) THEN << Call("setStandbyMode", 1, 0) >> ELSE << >>)
  \o << Call("newWebSocket", r.seq, r.id) >>

\* a test that lets every descriptor through
HasNoControlsNever(r) == FALSE

\* line 636: r.controls === undefined
HasNoControls(r) == ~r.controls

\* radarLoaded(r): the values it leaves behind and the calls it makes
radarLoaded(r, power) ==
  IF HasNoControls(r)
    THEN [pending |-> pendingRadarData, sockets |-> sockets,
          renderer |-> renderer, calls |-> << >>]
  ELSE IF RendererNotReady
    THEN [pending |-> BufferDescriptor(r), sockets |-> sockets,
          renderer |-> renderer, calls |-> << >>]
  ELSE [pending |-> pendingRadarData, sockets |-> sockets \cup {r},
        renderer |-> IF IsStandby(power)
                       THEN [renderer EXCEPT !.standby = TRUE] ELSE renderer,
        calls |-> SessionCalls(r, power)]

\* control.js invokes the registered radar callback with a descriptor; seq
\* numbers the descriptors that carry controls, in the order they arrive
RadarLoaded ==
  /\ nDescriptors < MaxDescriptors
  /\ \E id \in RadarIds, c \in BOOLEAN, power \in PowerStates :
       LET r == [id |-> id, controls |-> c, seq |-> nDescriptors + 1]
       IN \E res \in {radarLoaded(r, power)} :
            /\ pendingRadarData' = res.pending
            /\ sockets' = res.sockets
            /\ renderer' = res.renderer
            /\ calls' = res.calls
            /\ last' = Last("radarLoaded", r, NoFrame)
            /\ nDescriptors' = IF c THEN nDescriptors + 1 ELSE nDescriptors
            /\ discarded' = IF pendingRadarData # NoRadar
                                /\ res.pending # pendingRadarData
                               THEN discarded \cup {pendingRadarData.seq}
                               ELSE discarded
  /\ UNCHANGED <<pc, webgpuAvailable, protobufPromise, RadarMessage, timers,
                 headingSocket, drains, rangesSet>>
  /\ UNCHANGED <<headingVars, controlVars, fnVars>>

\* ------------------------------------------------------------ window.onload
\* a failed check that shows the error and goes on with the startup
OnloadCheckFailedGoesOn ==
  /\ pc = "start"
  /\ \E reason \in GPUFailures :
       /\ last' = Last(reason, NoRadar, NoFrame)
       /\ calls' = << Call("showWebGPUError", 0, 0) >>
  /\ pc' = "barrier"
  /\ webgpuAvailable' = "no"
  /\ protobufPromise' = "pending"
  /\ renderer' = [renderer EXCEPT !.constructed = TRUE]
  /\ UNCHANGED <<RadarMessage, pendingRadarData, sockets, timers,
                 headingSocket, drains, nDescriptors,
                 discarded, rangesSet>>
  /\ UNCHANGED <<headingVars, controlVars, fnVars>>

\* lines 141-144 with checkWebGPU (309-329): the check fails and onload returns
OnloadCheckFailed ==
  /\ pc = "start"
  /\ \E reason \in GPUFailures :
       /\ last' = Last(reason, NoRadar, NoFrame)
       /\ calls' = << Call("showWebGPUError", 0, 0) >>
  /\ pc' = "halted"
  /\ webgpuAvailable' = "no"
  /\ UNCHANGED <<renderer, protobufPromise, RadarMessage, pendingRadarData,
                 sockets, timers, headingSocket, drains,
                 nDescriptors, discarded, rangesSet>>
  /\ UNCHANGED <<headingVars, controlVars, fnVars>>

\* lines 141-168: the check passes, the schema load is started, the render
\* surface is constructed and onload waits for both
OnloadCheckPassed ==
  /\ pc = "start"
  /\ pc' = "barrier"
  /\ webgpuAvailable' = "yes"
  /\ protobufPromise' = "pending"
  /\ renderer' = [renderer EXCEPT !.constructed = TRUE]
  /\ last' = Last("onload", NoRadar, NoFrame)
  /\ calls' = << Call("protobuf.load", 0, 0), Call("new render_webgpu", 0,
                0) >>
  /\ UNCHANGED <<RadarMessage, pendingRadarData, sockets, timers,
                 headingSocket, drains, nDescriptors,
                 discarded, rangesSet>>
  /\ UNCHANGED <<headingVars, controlVars, fnVars>>

\* lines 148-156, err = null
ProtobufLoaded ==
  /\ protobufPromise = "pending"
  /\ RadarMessage' = TRUE
  /\ protobufPromise' = "resolved"
  /\ last' = Last("protobufLoaded", NoRadar, NoFrame)
  /\ calls' = << >>
  /\ UNCHANGED <<pc, webgpuAvailable, renderer, pendingRadarData, sockets,
                 timers, headingSocket, drains, nDescriptors,
                 discarded, rangesSet>>
  /\ UNCHANGED <<headingVars, controlVars, fnVars>>

\* lines 148-152, err set: the promise rejects, Promise.all rejects and
\* onload ends there
ProtobufLoadFailed ==
  /\ protobufPromise = "pending"
  /\ protobufPromise' = "rejected"
  /\ pc' = "failed"
  /\ last' = Last("protobufLoadFailed", NoRadar, NoFrame)
  /\ calls' = << >>
  /\ UNCHANGED <<webgpuAvailable, renderer, RadarMessage, pendingRadarData,
                 sockets, timers, headingSocket, drains,
                 nDescriptors, discarded, rangesSet>>
  /\ UNCHANGED <<headingVars, controlVars, fnVars>>

\* renderer.initPromise resolves; the surface is ready from here on
RendererInitDone ==
  /\ renderer.constructed
  /\ ~renderer.ready
  /\ renderer' = [renderer EXCEPT !.ready = TRUE]
  /\ last' = Last("rendererInitDone", NoRadar, NoFrame)
  /\ calls' = << >>
  /\ UNCHANGED <<pc, webgpuAvailable, protobufPromise, RadarMessage,
                 pendingRadarData, sockets, timers, headingSocket, drains,
                 nDescriptors, discarded, rangesSet>>
  /\ UNCHANGED <<headingVars, controlVars, fnVars>>

\* a wait for the render surface alone
BarrierOpenSurfaceOnly == renderer.ready

\* line 168: await Promise.all([renderer.initPromise, protobufPromise])
BarrierOpen == renderer.ready /\ protobufPromise = "resolved"

\* a drain that leaves the descriptor in the buffer
DrainPendingKeepsBuffer(power) ==
  IF pendingRadarData # NoRadar
    THEN LET res == radarLoaded(pendingRadarData, power)
         IN [pending |-> res.pending, sockets |-> res.sockets,
             renderer |-> res.renderer, calls |-> res.calls]
    ELSE [pending |-> pendingRadarData, sockets |-> sockets,
          renderer |-> renderer,
          calls |-> << Call("loadRadar", PageId, 0) >>]

\* lines 176-183: the drain of the pending buffer
DrainPending(power) ==
  IF pendingRadarData # NoRadar
    THEN LET res == radarLoaded(pendingRadarData, power)
         IN [pending |-> NoRadar, sockets |-> res.sockets,
             renderer |-> res.renderer, calls |-> res.calls]
    ELSE [pending |-> pendingRadarData, sockets |-> sockets,
          renderer |-> renderer,
          calls |-> << Call("loadRadar", PageId, 0) >>]

\* lines 168-183: both promises have resolved and onload goes on
BootstrapDrain ==
  /\ pc = "barrier"
  /\ BarrierOpen
  /\ pc' = "detect"
  /\ drains' = drains + 1
  /\ \E power \in PowerStates :
       \E res \in {DrainPending(power)} :
         /\ pendingRadarData' = res.pending
         /\ sockets' = res.sockets
         /\ renderer' = res.renderer
         /\ calls' = res.calls
  /\ last' = Last("drain", pendingRadarData, NoFrame)
  /\ UNCHANGED <<webgpuAvailable, protobufPromise, RadarMessage, timers,
                 headingSocket, nDescriptors, discarded, rangesSet>>
  /\ UNCHANGED <<headingVars, controlVars, fnVars>>

\* ------------------------------------------------------- heading subscriber
\* lines 203-213: subscribeToHeading opens a heading socket unless the page
\* runs standalone; the result is the sockets open and the calls made
subscribeToHeading(standalone) ==
  IF standalone
    THEN [socket |-> headingSocket, open |-> headingOpen, calls |-> << >>]
    ELSE [socket |-> "open", open |-> headingOpen + 1,
          calls |-> << Call("newHeadingSocket", 0, 0) >>]

\* lines 186-192: detectMode resolves, the heading socket is opened unless
\* the page runs standalone, and the heading mode toggle is created
DetectModeDone ==
  /\ pc = "detect"
  /\ pc' = "done"
  /\ \E mode \in {"standalone", "signalk"} :
       /\ standaloneMode' = mode
       /\ \E res \in {subscribeToHeading(mode = "standalone")} :
            /\ headingSocket' = res.socket
            /\ headingOpen' = res.open
            /\ calls' = res.calls
  /\ last' = Last("detectModeDone", NoRadar, NoFrame)
  /\ UNCHANGED <<webgpuAvailable, renderer, protobufPromise, RadarMessage,
                 pendingRadarData, sockets, timers, drains,
                 nDescriptors, discarded, rangesSet>>
  /\ UNCHANGED <<headingTimers, headingMode, trueHeading, rotation,
                 headingMsg, controlVars, fnVars>>

\* lines 263-269: the rotation for a heading mode and a heading
HeadingRotation(mode, heading) ==
  IF mode = "northUp" THEN 0 - heading ELSE 0

\* lines 261-271: updateHeadingDisplay, given the rotation applied so far
updateHeadingDisplay(mode, heading, rot) ==
  IF renderer.constructed
    THEN [rotation |-> [applied |-> TRUE,
                        value |-> HeadingRotation(mode, heading)],
          calls |-> << Call("setHeadingRotation",
                            HeadingRotation(mode, heading), 0) >>]
    ELSE [rotation |-> rot, calls |-> << >>]

\* a test that takes every entry for a heading
EntryMatchesAny(entry) == TRUE

\* line 237: value.path === "navigation.headingTrue"
EntryMatches(entry) == entry.match

\* lines 234-243: the loops over the update entries of one message
RECURSIVE ApplyEntries(_, _, _)
ApplyEntries(entries, heading, rot) ==
  IF entries = << >>
    THEN [trueHeading |-> heading, rotation |-> rot, calls |-> << >>]
    ELSE LET entry == Head(entries)
         IN IF EntryMatches(entry)
              THEN LET upd  == updateHeadingDisplay(headingMode, entry.value,
                                                    rot)
                       rest == ApplyEntries(Tail(entries), entry.value,
                                            upd.rotation)
                   IN [rest EXCEPT !.calls = upd.calls \o rest.calls]
              ELSE ApplyEntries(Tail(entries), heading, rot)

\* lines 230-248: headingSocket.onmessage for the message msg; a message
\* that throws is caught and leaves what the entries before the throw have
\* done
HeadingOnMessage(msg) ==
  /\ headingOpen > 0
  /\ \E res \in {ApplyEntries(msg.entries, trueHeading, rotation)} :
       /\ trueHeading' = res.trueHeading
       /\ rotation' = res.rotation
       /\ calls' = res.calls
       /\ headingMsg' = msg
  /\ last' = Last("headingMessage", NoRadar, NoFrame)
  /\ UNCHANGED <<pc, webgpuAvailable, renderer, protobufPromise, RadarMessage,
                 pendingRadarData, sockets, timers, headingSocket, drains,
                 nDescriptors, discarded, rangesSet>>
  /\ UNCHANGED <<standaloneMode, headingOpen, headingTimers, headingMode,
                 controlVars, fnVars>>

\* a message arrives on a heading socket that is open
HeadingMessage == \E msg \in HeadingMsgs : HeadingOnMessage(msg)

\* lines 250-252: headingSocket.onerror only logs
HeadingError ==
  /\ headingOpen > 0
  /\ last' = Last("headingError", NoRadar, NoFrame)
  /\ calls' = << >>
  /\ UNCHANGED <<pc, webgpuAvailable, renderer, protobufPromise, RadarMessage,
                 pendingRadarData, sockets, timers, headingSocket, drains,
                 nDescriptors, discarded, rangesSet>>
  /\ UNCHANGED <<headingVars, controlVars, fnVars>>

\* a close handler that gives up
ScheduleNothing(n) == n

\* line 256: setTimeout(subscribeToHeading, 5000)
ScheduleResubscribe(n) == n + 1

\* lines 254-257: headingSocket.onclose
HeadingClose ==
  /\ headingOpen > 0
  /\ headingOpen' = headingOpen - 1
  /\ headingTimers' = ScheduleResubscribe(headingTimers)
  /\ calls' = [i \in 1..(headingTimers' - headingTimers) |->
                Call("setTimeout", HEADING_RETRY_DELAY, 0)]
  /\ last' = Last("headingClose", NoRadar, NoFrame)
  /\ UNCHANGED <<pc, webgpuAvailable, renderer, protobufPromise, RadarMessage,
                 pendingRadarData, sockets, timers, headingSocket, drains,
                 nDescriptors, discarded, rangesSet>>
  /\ UNCHANGED <<standaloneMode, headingMode, trueHeading, rotation,
                 headingMsg, controlVars, fnVars>>

\* line 256: the timer fires and subscribeToHeading runs again
HeadingTimerFire ==
  /\ headingTimers > 0
  /\ headingTimers' = headingTimers - 1
  /\ \E res \in {subscribeToHeading(standaloneMode = "standalone")} :
       /\ headingSocket' = res.socket
       /\ headingOpen' = res.open
       /\ calls' = res.calls
  /\ last' = Last("headingTimer", NoRadar, NoFrame)
  /\ UNCHANGED <<pc, webgpuAvailable, renderer, protobufPromise, RadarMessage,
                 pendingRadarData, sockets, timers, drains,
                 nDescriptors, discarded, rangesSet>>
  /\ UNCHANGED <<standaloneMode, headingMode, trueHeading, rotation,
                 headingMsg, controlVars, fnVars>>

\* lines 294-300: the other heading mode
ToggledMode(mode) == IF mode = "headingUp" THEN "northUp" ELSE "headingUp"

\* a click that changes the mode and leaves the picture as it is
ToggleDisplayStale(mode, heading, rot) ==
  [rotation |-> rot, calls |-> << >>]

\* line 301: the click handler's updateHeadingDisplay()
ToggleDisplay(mode, heading, rot) == updateHeadingDisplay(mode, heading, rot)

\* lines 293-303: a click on the heading mode toggle, which exists once
\* window.onload has run to its end
ToggleClick ==
  /\ pc = "done"
  /\ headingMode' = ToggledMode(headingMode)
  /\ \E res \in {ToggleDisplay(headingMode', trueHeading, rotation)} :
       /\ rotation' = res.rotation
       /\ calls' = res.calls \o << Call("redrawCanvas", 0, 0) >>
  /\ last' = Last("toggle", NoRadar, NoFrame)
  /\ UNCHANGED <<pc, webgpuAvailable, renderer, protobufPromise, RadarMessage,
                 pendingRadarData, sockets, timers, headingSocket, drains,
                 nDescriptors, discarded, rangesSet>>
  /\ UNCHANGED <<standaloneMode, headingOpen, headingTimers, trueHeading,
                 headingMsg, controlVars, fnVars>>

\* ------------------------------------------------------------ spoke socket
\* a range test that lets a zero range through
SetsRangeAnyValue(spoke, range) == spoke.range # range

\* line 714: if (spoke.range > 0 && spoke.range !== renderer.range)
SetsRange(spoke, range) == spoke.range > 0 /\ spoke.range # range

\* a loop body that draws only the spokes that carry a range
SpokeCallsSkipNoRange(spoke, range) ==
  IF spoke.range > 0
    THEN << Call("drawSpoke", spoke.angle, spoke.range) >>
         \o (IF SetsRange(spoke, range)
               THEN << Call("setRange", spoke.range, 0) >> ELSE << >>)
         \o << Call("setCurrentRange", spoke.range, 0) >>
    ELSE << >>

\* a loop body that tells control.js of a range only when it changes
SpokeCallsCurrentOnChange(spoke, range) ==
  << Call("drawSpoke", spoke.angle, spoke.range) >>
  \o (IF SetsRange(spoke, range)
        THEN << Call("setRange", spoke.range, 0),
                Call("setCurrentRange", spoke.range, 0) >>
        ELSE << >>)

\* lines 706-721: one iteration of the loop over message.spokes
SpokeCalls(spoke, range) ==
  << Call("drawSpoke", spoke.angle, spoke.range) >>
  \o (IF SetsRange(spoke, range)
        THEN << Call("setRange", spoke.range, 0) >> ELSE << >>)
  \o (IF spoke.range > 0
        THEN << Call("setCurrentRange", spoke.range, 0) >> ELSE << >>)

\* lines 705-722: the loop; the result is the surface and the calls made
RECURSIVE DispatchSpokes(_, _)
DispatchSpokes(spokes, rdr) ==
  IF spokes = << >>
    THEN [renderer |-> rdr, calls |-> << >>]
    ELSE LET spoke == Head(spokes)
             rdr1  == IF SetsRange(spoke, rdr.range)
                        THEN RendererSetRange(rdr, spoke.range) ELSE rdr
             rest  == DispatchSpokes(Tail(spokes), rdr1)
         IN [renderer |-> rest.renderer,
             calls |-> SpokeCalls(spoke, rdr.range) \o rest.calls]

\* a test that lets a frame without spokes through
HasSpokesAlways(frame) == TRUE

\* line 704: if (message.spokes && message.spokes.length > 0)
HasSpokes(frame) == Len(frame.spokes) > 0

\* a handler without the test of RadarMessage
FrameDroppedNoSchemaTest(frame) ==
  \/ frame.kind = "empty"
  \/ frame.kind = "garbage"

\* lines 692-700 and the catch of 725: the frame is not decoded
FrameDropped(frame) ==
  \/ frame.kind = "empty"
  \/ ~RadarMessage
  \/ frame.kind = "garbage"

\* lines 683-728: webSocket.onmessage
onmessage(frame) ==
  IF FrameDropped(frame) \/ ~HasSpokes(frame)
    THEN [renderer |-> renderer, calls |-> << >>]
    ELSE LET res == DispatchSpokes(frame.spokes, renderer)
         IN [renderer |-> res.renderer,
             calls |-> res.calls \o << Call("render", 0, 0) >>]

\* a frame arrives on a spoke socket that is open; the handler reads nothing
\* of its closure but the counters it logs
SocketMessage ==
  /\ sockets # {}
  /\ \E frame \in Frames :
       \E res \in {onmessage(frame)} :
         /\ renderer' = res.renderer
         /\ calls' = res.calls
         /\ last' = Last("message", NoRadar, frame)
         /\ rangesSet' = rangesSet \cup
              {res.calls[i].a : i \in {j \in 1..Len(res.calls) :
                                        res.calls[j].fn = "setRange"}}
  /\ UNCHANGED <<pc, webgpuAvailable, protobufPromise, RadarMessage,
                 pendingRadarData, sockets, timers, headingSocket, drains,
                 nDescriptors, discarded>>
  /\ UNCHANGED <<headingVars, controlVars, fnVars>>

\* lines 678-680: webSocket.onerror only logs
SocketError ==
  /\ \E s \in sockets : last' = Last("error", s, NoFrame)
  /\ calls' = << >>
  /\ UNCHANGED <<pc, webgpuAvailable, renderer, protobufPromise, RadarMessage,
                 pendingRadarData, sockets, timers, headingSocket,
                 drains, nDescriptors, discarded, rangesSet>>
  /\ UNCHANGED <<headingVars, controlVars, fnVars>>

\* a restart that asks for the radar of the page request
restartPageId(id) == Append(timers, PageId)

\* lines 624-626: restart(id)
restart(id) == Append(timers, id)

\* lines 674-677: webSocket.onclose, for a clean or an abnormal close
SocketClose ==
  /\ \E s \in sockets :
       /\ sockets' = sockets \ {s}
       /\ timers' = restart(s.id)
       /\ calls' = << Call("setTimeout", s.id, RESTART_DELAY) >>
       /\ last' = Last("close", s, NoFrame)
  /\ UNCHANGED <<pc, webgpuAvailable, renderer, protobufPromise, RadarMessage,
                 pendingRadarData, headingSocket, drains,
                 nDescriptors, discarded, rangesSet>>
  /\ UNCHANGED <<headingVars, controlVars, fnVars>>

\* a timer that starts the page state over before it asks for the radar
RestartTimerFireResetsPage ==
  /\ timers # << >>
  /\ timers' = Tail(timers)
  /\ calls' = << Call("loadRadar", Head(timers), 0) >>
  /\ last' = Last("timer", NoRadar, NoFrame)
  /\ noTransmitAngles' = [k \in ZoneIds |-> Unwritten]
  /\ trueHeading' = 0
  /\ headingMode' = "headingUp"
  /\ UNCHANGED <<pc, webgpuAvailable, renderer, protobufPromise, RadarMessage,
                 pendingRadarData, sockets, headingSocket, drains,
                 nDescriptors, discarded, rangesSet>>
  /\ UNCHANGED <<standaloneMode, headingOpen, headingTimers, rotation,
                 headingMsg, control, fnVars>>

\* line 625: the timer set by restart fires and calls loadRadar(id)
RestartTimerFire ==
  /\ timers # << >>
  /\ timers' = Tail(timers)
  /\ calls' = << Call("loadRadar", Head(timers), 0) >>
  /\ last' = Last("timer", NoRadar, NoFrame)
  /\ UNCHANGED <<pc, webgpuAvailable, renderer, protobufPromise, RadarMessage,
                 pendingRadarData, sockets, headingSocket, drains,
                 nDescriptors, discarded, rangesSet>>
  /\ UNCHANGED <<headingVars, controlVars, fnVars>>

\* ------------------------------------------------------------ controlUpdate
\* lines 838-845: the first run of digits of the name, or 0
extractNoTxZone(c) == IF c.digits # NoValue THEN c.digits ELSE 0

\* lines 847-849: name.includes("start") ? 0 : 1
extractStartOrEnd(c) == IF c.start THEN 0 ELSE 1

\* line 822 assigns a property of noTransmitAngles[idx]: that throws a
\* TypeError unless the element is an array
ZoneWritable(zone) == zone.kind = "array"

\* a clear that empties the whole array
ClearAllZones(zones, idx) == [k \in DOMAIN zones |-> Cleared]

\* line 824: noTransmitAngles[idx] = null
ClearZone(zones, idx) == [zones EXCEPT ![idx] = Cleared]

\* line 822: noTransmitAngles[idx][start_or_end] = value
WriteZone(zones, idx, slot, value) ==
  IF slot = 0
    THEN [zones EXCEPT ![idx].start = value]
    ELSE [zones EXCEPT ![idx].end = value]

\* lines 817-826: the No Transmit block of controlUpdate
NoTransmitUpdate(zones, c) ==
  LET idx  == extractNoTxZone(c)
      slot == extractStartOrEnd(c)
  IN IF c.enabled
       THEN IF ZoneWritable(zones[idx])
              THEN [zones |-> WriteZone(zones, idx, slot, c.value),
                    thrown |-> FALSE]
              ELSE [zones |-> zones, thrown |-> TRUE]
       ELSE [zones |-> ClearZone(zones, idx), thrown |-> FALSE]

\* lines 810-836: controlUpdate(control, controlValue); an exception in the
\* No Transmit block leaves the handler before the power block
controlUpdate(c) ==
  IF c.kind = "Range"
    THEN [renderer |-> IF renderer.constructed
                         THEN RendererSetRange(renderer, c.value)
                         ELSE renderer,
          zones |-> noTransmitAngles, thrown |-> FALSE,
          calls |-> IF renderer.constructed
                      THEN << Call("setRange", c.value, 0) >> ELSE << >>]
  ELSE IF c.kind = "No Transmit"
    THEN LET res == NoTransmitUpdate(noTransmitAngles, c)
         IN [renderer |-> renderer, zones |-> res.zones,
             thrown |-> res.thrown, calls |-> << >>]
  ELSE IF c.kind = "power"
    THEN [renderer |-> IF renderer.constructed
                         THEN [renderer EXCEPT
                                 !.standby = IsStandby(c.power)]
                         ELSE renderer,
          zones |-> noTransmitAngles, thrown |-> FALSE,
          calls |-> IF renderer.constructed
                      THEN << Call("setStandbyMode",
                                   IF IsStandby(c.power) THEN 1 ELSE 0, 0) >>
                      ELSE << >>]
  ELSE [renderer |-> renderer, zones |-> noTransmitAngles,
        thrown |-> FALSE, calls |-> << >>]

\* control.js invokes the registered control callback (line 134) for the
\* control update c
ControlCallback(c) ==
  /\ \E res \in {controlUpdate(c)} :
       /\ renderer' = res.renderer
       /\ noTransmitAngles' = res.zones
       /\ calls' = res.calls
       /\ control' = [kind |-> c.kind, start |-> c.start,
                      digits |-> c.digits, value |-> c.value,
                      enabled |-> c.enabled, power |-> c.power,
                      thrown |-> res.thrown]
  /\ last' = Last("controlUpdate", NoRadar, NoFrame)
  /\ UNCHANGED <<pc, webgpuAvailable, protobufPromise, RadarMessage,
                 pendingRadarData, sockets, timers, headingSocket, drains,
                 nDescriptors, discarded, rangesSet>>
  /\ UNCHANGED <<headingVars, fnVars>>

\* any control update
ControlUpdate == \E c \in Controls : ControlCallback(c)

\* ---------------------------------------------------------- range formatting
\* texts: a whole number and a unit ("500 m"), a fraction and a unit
\* ("1/2 nm"), the decimal text of the quotient n/d, or that quotient
\* rounded to a number of hundredths or tenths by toFixed
WholeText(n, unit)      == [form |-> "whole", n |-> n, d |-> 1, unit |-> unit]
FractionText(n, d, unit) ==
  [form |-> "fraction", n |-> n, d |-> d, unit |-> unit]
FixedText(n, d, unit)   == [form |-> "fixed", n |-> n, d |-> d, unit |-> unit]

\* the text JavaScript gives the number n/d: digits only when it is whole
NumberText(n, d, unit) ==
  IF n % d = 0
    THEN WholeText(n \div d, unit)
    ELSE [form |-> "decimal", n |-> n, d |-> d, unit |-> unit]

\* the characters of a whole-number or fraction text
Render(text) ==
  CASE text.form = "whole" -> ToString(text.n) \o " " \o text.unit
    [] text.form = "fraction" ->
         ToString(text.n) \o "/" \o ToString(text.d) \o " " \o text.unit
    [] OTHER -> ""

\* line 48: Math.round of a range given in half metres
RoundMeters(v2) == (v2 + 1) \div 2

\* lines 33-36: divides_near(a, b) for b = num / den, in units of 1 / den
divides_near(a, num, den) ==
  LET remainder == (a * den) % num
  IN remainder <= den \/ remainder >= num - den

\* bands that leave 750 to the band above
is_metricOpenBand(v) ==
  IF v <= 100 THEN divides_near(v, 25, 1)
  ELSE IF v < 750 THEN divides_near(v, 50, 1)
  ELSE divides_near(v, 500, 1)

\* lines 38-45
is_metric(v) ==
  IF v <= 100 THEN divides_near(v, 25, 1)
  ELSE IF v <= 750 THEN divides_near(v, 50, 1)
  ELSE divides_near(v, 500, 1)

\* the same tests tried from the finest fraction to the coarsest
RECURSIVE FinestFraction(_, _)
FinestFraction(v, denom) ==
  IF denom < 2
    THEN NumberText(v, NAUTICAL_MILE, "nm")
  ELSE IF divides_near(v, NAUTICAL_MILE, denom)
    THEN FractionText(((v + 1) * denom) \div NAUTICAL_MILE, denom, "nm")
  ELSE FinestFraction(v, denom \div 2)

\* a search that starts at 1/128
NauticalFractionFinestFirst(v, denom) == FinestFraction(v, 128)

\* lines 76-92: the fractions below one nautical mile, coarsest first
RECURSIVE NauticalFraction(_, _)
NauticalFraction(v, denom) ==
  IF denom > 128
    THEN NumberText(v, NAUTICAL_MILE, "nm")
  ELSE IF divides_near(v, NAUTICAL_MILE, denom)
    THEN FractionText(((v + 1) * denom) \div NAUTICAL_MILE, denom, "nm")
  ELSE NauticalFraction(v, 2 * denom)

\* lines 114-128: the search over the denominators 128, 64, ..., 2 in that
\* order, in units of 1/64 m (v2 is in half metres), and the toFixed(2)
\* fallback
RECURSIVE BestFraction(_, _)
BestFraction(v2, denom) ==
  IF denom < 2
    THEN FixedText((100 * v2 + NAUTICAL_MILE) \div (2 * NAUTICAL_MILE),
                   100, "nm")
  ELSE LET fraction  == (64 * NAUTICAL_MILE) \div denom
           v         == 32 * v2
           numerator == (2 * v + fraction) \div (2 * fraction)
           diff      == v - numerator * fraction
           error     == IF diff < 0 THEN 0 - diff ELSE diff
       IN IF 10 * error < fraction /\ numerator > 0
            THEN FractionText(numerator, denom, "nm")
            ELSE BestFraction(v2, denom \div 2)

\* the search of lines 114-125, started at its first denominator
SearchFraction(v2) == BestFraction(v2, 128)

\* lines 96-129: formatRangeNautical, for v = v2 / 2 metres
formatRangeNautical(v2) ==
  IF v2 >= 2 * NAUTICAL_MILE
    THEN IF v2 >= 20 * NAUTICAL_MILE
           THEN WholeText((v2 + NAUTICAL_MILE) \div (2 * NAUTICAL_MILE), "nm")
           ELSE LET halves == (2 * v2 + NAUTICAL_MILE)
                                \div (2 * NAUTICAL_MILE)
                IN IF halves % 2 = 0
                     THEN WholeText(halves \div 2, "nm")
                     ELSE FixedText(5 * halves, 10, "nm")
    ELSE SearchFraction(v2)

\* lines 47-94: formatRangeValue(brand, v), for v = v2 / 2 metres
formatRangeValue(brand, v2) ==
  LET v == RoundMeters(v2)
  IN IF brand = "Navico"
       THEN IF v < 1000 THEN WholeText(v, "m")
                        ELSE formatRangeNautical(2 * v)
     ELSE IF is_metric(v)
       THEN IF v >= 1000 THEN NumberText(v, 1000, "km")
                         ELSE WholeText(v, "m")
     ELSE IF v >= NAUTICAL_MILE - 1
       THEN IF divides_near(v, NAUTICAL_MILE, 1)
              THEN WholeText((v + 1) \div NAUTICAL_MILE, "nm")
              ELSE NumberText(v, NAUTICAL_MILE, "nm")
     ELSE NauticalFraction(v, 2)

\* a caller formats a range with formatRangeValue
FormatRangeValue ==
  /\ formatted.fn = "formatRangeValue"
  /\ formatted.out = NoText
  /\ formatted' = [formatted EXCEPT
                     !.out = formatRangeValue(formatted.brand, formatted.v2)]
  /\ UNCHANGED <<pc, webgpuAvailable, renderer, protobufPromise, RadarMessage,
                 pendingRadarData, sockets, timers, headingSocket, drains,
                 nDescriptors, discarded, rangesSet, last, calls>>
  /\ UNCHANGED <<headingVars, controlVars, legend>>

\* a caller formats a range with formatRangeNautical
FormatRangeNautical ==
  /\ formatted.fn = "formatRangeNautical"
  /\ formatted.out = NoText
  /\ formatted' = [formatted EXCEPT !.out = formatRangeNautical(formatted.v2)]
  /\ UNCHANGED <<pc, webgpuAvailable, renderer, protobufPromise, RadarMessage,
                 pendingRadarData, sockets, timers, headingSocket, drains,
                 nDescriptors, discarded, rangesSet, last, calls>>
  /\ UNCHANGED <<headingVars, controlVars, legend>>

\* ------------------------------------------------------------------- legend
\* line 744: if (pixelValues < 2) pixelValues = 64
EffectivePixelValues(pixelValues) ==
  IF pixelValues < 2 THEN 64 ELSE pixelValues

\* an alpha channel that is opaque everywhere
LegendAlphaOpaque(i) == 255

\* line 790: i === 0 ? 0 : 255
LegendAlpha(i) == IF i = 0 THEN 0 ELSE 255

\* lines 754-781: the gradient at t = a / b.  The quotients are taken
\* exactly; the code's double arithmetic gives the same channel except
\* where the exact product is whole and the rounded one falls just short of
\* it, which makes that channel one less.  0 / 0 is NaN, every comparison
\* with it is false and Math.floor of it is NaN
Gradient(a, b) ==
  IF b = 0 THEN << 255, NaN, 0 >>
  ELSE IF 4 * a < b THEN << 0, 85 + ((680 * a) \div b), 255 >>
  ELSE IF 2 * a < b THEN << 0, 255, (255 * (2 * b - 4 * a)) \div b >>
  ELSE IF 4 * a < 3 * b THEN << (255 * (4 * a - 2 * b)) \div b, 255, 0 >>
  ELSE << 255, (255 * (4 * b - 4 * a)) \div b, 0 >>

\* lines 747-790: the entry of index i
LegendEntry(i, pixelValues) ==
  LET rgb == IF i = 0 THEN << 0, 0, 0 >>
             ELSE IF i < pixelValues THEN Gradient(i - 1, pixelValues - 2)
             ELSE << 255, 0, 0 >>
  IN rgb \o << LegendAlpha(i) >>

\* lines 740-793: buildMayaraLegend; index i is element i + 1
buildMayaraLegend(pixelValues) ==
  [k \in 1..LEGEND_SIZE |->
     LegendEntry(k - 1, EffectivePixelValues(pixelValues))]

\* a caller builds the legend for a pixel value count
BuildLegend ==
  /\ legend.table = << >>
  /\ legend' = [legend EXCEPT !.table = buildMayaraLegend(legend.pixelValues)]
  /\ UNCHANGED <<pc, webgpuAvailable, renderer, protobufPromise, RadarMessage,
                 pendingRadarData, sockets, timers, headingSocket, drains,
                 nDescriptors, discarded, rangesSet, last, calls>>
  /\ UNCHANGED <<headingVars, controlVars, formatted>>

\* ------------------------------------------------------------ specification
Next ==
  \/ RadarLoaded
  \/ OnloadCheckFailed
  \/ OnloadCheckPassed
  \/ ProtobufLoaded
  \/ ProtobufLoadFailed
  \/ RendererInitDone
  \/ BootstrapDrain
  \/ DetectModeDone
  \/ SocketMessage
  \/ SocketError
  \/ SocketClose
  \/ RestartTimerFire

Spec == Init /\ [][Next]_vars

\* the event loop runs every timer that is due, and resumes window.onload
\* once the promises it awaits have resolved; a timer that fires leaves the
\* timer queue and the resumed onload moves on, so each fairness condition
\* is stated on the variable its action always changes
FairSpec ==
  Spec /\ WF_timers(RestartTimerFire) /\ WF_pc(BootstrapDrain)

\* the bootstrap with the heading subscriber and the heading mode toggle,
\* on a page whose radar does not answer
HeadingNext ==
  \/ OnloadCheckPassed
  \/ ProtobufLoaded
  \/ RendererInitDone
  \/ BootstrapDrain
  \/ DetectModeDone
  \/ HeadingMessage
  \/ HeadingError
  \/ HeadingClose
  \/ HeadingTimerFire
  \/ ToggleClick

HeadingSpec == Init /\ [][HeadingNext]_vars

\* the event loop runs every timer that is due
HeadingFairSpec == HeadingSpec /\ WF_vars(HeadingTimerFire)

\* the control callback, before and after the render surface exists
ControlNext ==
  \/ OnloadCheckPassed
  \/ RendererInitDone
  \/ ControlUpdate

ControlSpec == Init /\ [][ControlNext]_vars

\* the range formatters applied to every brand and range of the bounds
FormatInit ==
  /\ PageInit
  /\ legend = NoLegend
  /\ formatted \in
       [fn : {"formatRangeValue"}, brand : Brands, v2 : HalfMeters,
        out : {NoText}]
       \cup [fn : {"formatRangeNautical"}, brand : {""}, v2 : HalfMeters,
             out : {NoText}]

FormatNext ==
  \/ FormatRangeValue
  \/ FormatRangeNautical

FormatSpec == FormatInit /\ [][FormatNext]_vars

\* buildMayaraLegend applied to every pixel value count of the bounds
LegendInit ==
  /\ PageInit
  /\ formatted = NoFormat
  /\ legend \in [pixelValues : PixelInputs, table : {<< >>}]

LegendNext == BuildLegend

LegendSpec == LegendInit /\ [][LegendNext]_vars

\* a heading message that carries one heading: one update entry, for the
\* subscribed path
HeadingUpdate ==
  \E h \in Headings :
    HeadingOnMessage([entries |-> << [match |-> TRUE, value |-> h] >>,
                      bad |-> FALSE])

\* a control update that switches a zone off: the control named
\* "No Transmit start <k>" with enabled = false
ZoneDisable ==
  \E k \in ZoneIds :
    ControlCallback([kind |-> "No Transmit", start |-> TRUE, digits |-> k,
                     value |-> 10, enabled |-> FALSE, power |-> ""])

\* a control update for the power control
PowerUpdate ==
  \E p \in PowerStates :
    ControlCallback([kind |-> "power", start |-> FALSE, digits |-> NoValue,
                     value |-> 0, enabled |-> TRUE, power |-> p])

\* the spoke session with its reconnects and the power control
PowerNext ==
  \/ OnloadCheckPassed
  \/ ProtobufLoaded
  \/ RendererInitDone
  \/ BootstrapDrain
  \/ DetectModeDone
  \/ RadarLoaded
  \/ SocketClose
  \/ RestartTimerFire
  \/ PowerUpdate

PowerSpec == Init /\ [][PowerNext]_vars

\* the spoke session with its reconnects, on a page whose zones are switched
\* off, whose heading changes and whose heading mode is toggled
PersistNext ==
  \/ OnloadCheckPassed
  \/ ProtobufLoaded
  \/ RendererInitDone
  \/ BootstrapDrain
  \/ DetectModeDone
  \/ RadarLoaded
  \/ SocketClose
  \/ RestartTimerFire
  \/ HeadingUpdate
  \/ ToggleClick
  \/ ZoneDisable

PersistSpec == Init /\ [][PersistNext]_vars

\* ===================================================================== claims
ConfigFns == {"setLegend", "setSpokes", "setPixelValues", "setBrand"}

\* both initialisations have completed
BothComplete == renderer.ready /\ protobufPromise = "resolved"

\* the drawSpoke calls a frame's spokes ask for, in the frame's order
DrawCallsOf(spokes) ==
  [i \in 1..Len(spokes) |-> Call("drawSpoke", spokes[i].angle,
  spokes[i].range)] 
\* the handler that ran last decoded its frame
Decoded == last.op = "message" /\ last.frame.kind = "msg" /\ RadarMessage

\* C1: a descriptor with controls that radarLoaded receives while the render
\* surface initialisation and the schema load have not both completed is put
\* in the pending buffer, and radarLoaded opens no spoke socket and makes no
\* configuration call on the render surface for it.
C1_BufferedBeforeBarrier ==
  [][ (last'.op = "radarLoaded" /\ last'.d.controls /\ ~BothComplete)
      => /\ pendingRadarData' = last'.d
         /\ sockets' = sockets
         /\ ~HasCall(calls', ConfigFns \cup {"newWebSocket"}) ]_vars

\* C2: descriptors with controls that arrive before the render surface is
\* ready overwrite one another in the pending buffer, so the buffer holds the
\* latest one; the bootstrap drain constructs the session from the buffered
\* descriptor and empties the buffer; an overwritten descriptor never gets a
\* socket or a configuration call.
C2_LastWriteWins ==
  /\ [][ (last'.op = "radarLoaded" /\ last'.d.controls /\ RendererNotReady)
         => /\ pendingRadarData' = last'.d
            /\ sockets' = sockets
            /\ calls' = << >> ]_vars
  /\ [][ (last'.op = "drain" /\ pendingRadarData # NoRadar)
         => /\ pendingRadarData' = NoRadar
            /\ sockets' = sockets \cup {pendingRadarData}
            /\ FnCalls(calls', "newWebSocket")
                 = << Call("newWebSocket", pendingRadarData.seq,
                           pendingRadarData.id) >>
            /\ FnCalls(calls', "setLegend")
                 = << Call("setLegend", pendingRadarData.seq, 0) >> ]_vars
  /\ [][ /\ \A s \in sockets' : s.seq \notin discarded'
         /\ \A i \in 1..Len(calls') :
              calls'[i].fn \in ConfigFns \cup {"newWebSocket"}
                => calls'[i].a \notin discarded' ]_vars

\* two descriptors arrived before the surface was ready, and the drain has
\* built the session from the second
C2_Witness ==
  /\ last.op = "drain"
  /\ discarded # {}
  /\ last.d \in sockets
  /\ pendingRadarData = NoRadar
  /\ \A k \in discarded : k < last.d.seq

\* C3: the pending buffer is drained once the barrier is passed, and never a
\* second time; a drain that finds a descriptor consumes it, clears the
\* buffer and does not call loadRadar; a drain that finds the buffer empty
\* calls loadRadar once, with the id of the page request, and nothing else;
\* after the drain the buffer is empty for good.
C3_DrainOnce ==
  /\ BothComplete ~> (drains = 1)
  /\ [](drains <= 1)
  /\ [](drains = 1 => pendingRadarData = NoRadar /\ BothComplete)
  /\ [][ last'.op = "drain"
         => /\ drains' = drains + 1
            /\ IF pendingRadarData # NoRadar
                 THEN /\ pendingRadarData' = NoRadar
                      /\ pendingRadarData \in sockets'
                      /\ ~HasCall(calls', {"loadRadar"})
                 ELSE /\ calls' = << Call("loadRadar", PageId, 0) >>
                      /\ sockets' = sockets ]_vars

\* a descriptor arrives after the drain and the buffer stays empty
C3_Witness ==
  /\ drains = 1
  /\ last.op = "radarLoaded"
  /\ last.d.controls
  /\ last.d \in sockets
  /\ pendingRadarData = NoRadar

\* C4: in whichever order the render surface initialisation and the schema
\* load complete, no spoke is passed to drawSpoke and the bootstrap neither
\* drains the pending buffer nor calls loadRadar(id) before both have
\* completed; the completion that comes last lets the bootstrap go on.
C4_Barrier ==
  /\ \A latest \in {"rendererInitDone", "protobufLoaded"} :
       (BothComplete /\ last.op = latest) ~> (pc \in {"detect", "done"})
  /\ [](HasCall(calls, {"drawSpoke"}) => BothComplete)
  /\ [](pc \in {"detect", "done"} => BothComplete)
  /\ [](~BothComplete => drains = 0)
  /\ [][ last'.op = "drain" => BothComplete /\ BothComplete' ]_vars

\* both have completed and the bootstrap has gone on to drain the buffer,
\* building a session or calling loadRadar
C4_Witness ==
  /\ last.op = "drain"
  /\ drains = 1
  /\ calls # << >>

\* C5: for every frame that is decoded, drawSpoke is called once for each
\* spoke of the frame, in the frame's order, within the handler of that
\* frame.
C5_SpokesInOrder ==
  Decoded => FnCalls(calls, "drawSpoke") = DrawCallsOf(last.frame.spokes)

\* a decoded frame of two spokes has been dispatched
C5_Witness ==
  /\ Decoded
  /\ Len(last.frame.spokes) = 2
  /\ Len(FnCalls(calls, "drawSpoke")) = 2

\* C6 as stated: every decoded frame, of zero or more spokes, is followed by
\* exactly one render() call, made after the frame's last spoke.
C6_RenderEveryFrame ==
  Decoded => /\ Len(FnCalls(calls, "render")) = 1
             /\ calls[Len(calls)].fn = "render"

\* C6 as the code has it: a decoded frame with at least one spoke gets
\* exactly one render() call, after all its spokes; a decoded frame with no
\* spokes gets no call at all.
C6_RenderPerNonEmptyFrame ==
  Decoded =>
    IF last.frame.spokes # << >>
      THEN /\ Len(FnCalls(calls, "render")) = 1
           /\ calls[Len(calls)].fn = "render"
           /\ Len(FnCalls(calls, "drawSpoke")) = Len(last.frame.spokes)
      ELSE calls = << >>

\* a frame of two spokes has been dispatched and rendered once
C6_Witness ==
  /\ Decoded
  /\ Len(last.frame.spokes) = 2
  /\ Len(FnCalls(calls, "render")) = 1
  /\ calls[Len(calls)].fn = "render"

\* the ranges a run of spokes makes the surface change to, starting from the
\* range cur the surface holds
RECURSIVE RangeChanges(_, _)
RangeChanges(spokes, cur) ==
  IF spokes = << >> THEN << >>
  ELSE LET r == Head(spokes).range
       IN IF r > 0 /\ r # cur
            THEN << r >> \o RangeChanges(Tail(spokes), r)
            ELSE RangeChanges(Tail(spokes), cur)

\* C7 as stated: setRange is called exactly once for each distinct non-zero
\* range seen in the spokes, and never for zero.
C7_OncePerDistinctRange ==
  [][ last'.op = "message"
      => LET sr == FnCalls(calls', "setRange")
         IN /\ \A i \in 1..Len(sr) :
                 /\ sr[i].a # 0
                 /\ sr[i].a \notin rangesSet
                 /\ \A j \in 1..Len(sr) : j # i => sr[j].a # sr[i].a
            /\ (last'.frame.kind = "msg" /\ RadarMessage)
                 => \A k \in 1..Len(last'.frame.spokes) :
                      last'.frame.spokes[k].range > 0
                        => last'.frame.spokes[k].range \in rangesSet' ]_vars

\* C7 as the code has it: setRange is called for a spoke exactly when the
\* spoke's range is non-zero and differs from the range the surface holds at
\* that moment, so once for every change of range (a value that comes back
\* after another one is set again), and never for zero.
C7_SetRangeOnChange ==
  [][ (last'.op = "message" /\ last'.frame.kind = "msg" /\ RadarMessage)
      => LET ch == RangeChanges(last'.frame.spokes, renderer.range)
         IN /\ FnCalls(calls', "setRange")
                 = [i \in 1..Len(ch) |-> Call("setRange", ch[i], 0)]
            /\ renderer'.range
                 = IF ch = << >> THEN renderer.range ELSE ch[Len(ch)] ]_vars

\* two spokes of the same non-zero range: the first sets it, the second
\* does not
C7_Witness ==
  /\ Decoded
  /\ Len(last.frame.spokes) = 2
  /\ last.frame.spokes[1].range = 1
  /\ last.frame.spokes[2].range = 1
  /\ FnCalls(calls, "setRange") = << Call("setRange", 1, 0) >>

\* C8: every close of a spoke socket schedules exactly one loadRadar call,
\* after the fixed delay, for the id of the descriptor the socket was built
\* from, and the timer then makes that call; an error event schedules
\* nothing and changes nothing.
C8_CloseReacquires ==
  /\ [][ last'.op = "close"
         => /\ last'.d \in sockets
            /\ sockets' = sockets \ {last'.d}
            /\ timers' = Append(timers, last'.d.id)
            /\ calls' =
                 << Call("setTimeout", last'.d.id, RESTART_DELAY) >> ]_vars
  /\ [][ last'.op = "error"
         => /\ calls' = << >>
            /\ UNCHANGED <<pc, webgpuAvailable, renderer, protobufPromise,
                           RadarMessage, pendingRadarData, sockets, timers,
                           headingSocket, drains>> ]_vars
  /\ [][ last'.op = "timer"
         => /\ timers # << >>
            /\ calls' = << Call("loadRadar", Head(timers), 0) >>
            /\ timers' = Tail(timers) ]_vars
  /\ [][ timers' # timers => last'.op \in {"close", "timer"} ]_vars
  /\ \A id \in RadarIds :
       (timers # << >> /\ Head(timers) = id)
         ~> (last.op = "timer" /\ calls = << Call("loadRadar", id, 0) >>)

\* the socket of a descriptor for radar 2 has closed and the timer has
\* asked for radar 2 again
C8_Witness ==
  /\ last.op = "timer"
  /\ calls = << Call("loadRadar", 2, 0) >>
  /\ timers = << >>

\* a frame is dropped: it is empty, the schema is not loaded, or decoding
\* throws
DroppedStep ==
  /\ last'.op = "message"
  /\ \/ last'.frame.kind \in {"empty", "garbage"}
     \/ ~RadarMessage

\* C9: a zero-byte frame, a frame that arrives while the schema is not
\* loaded and a frame whose decoding throws make no call, leave the socket
\* open and schedule nothing; spokes are drawn only by the handler of the
\* frame that carries them, so a dropped frame is never dispatched later.
C9_DroppedFrames ==
  /\ [][ DroppedStep
         => /\ calls' = << >>
            /\ sockets' = sockets
            /\ sockets' # {}
            /\ UNCHANGED <<pc, webgpuAvailable, renderer, protobufPromise,
                           RadarMessage, pendingRadarData, timers,
                           headingSocket, drains>> ]_vars
  /\ [][ HasCall(calls', {"drawSpoke", "setRange", "setCurrentRange",
                          "render"})
         => /\ last'.op = "message"
            /\ last'.frame.kind = "msg"
            /\ RadarMessage
            /\ FnCalls(calls', "drawSpoke")
                 = DrawCallsOf(last'.frame.spokes) ]_vars

\* a frame with spokes arrived before the schema was loaded and was dropped
C9_Witness ==
  /\ last.op = "message"
  /\ last.frame.kind = "msg"
  /\ last.frame.spokes # << >>
  /\ ~RadarMessage
  /\ calls = << >>
  /\ sockets # {}

\* C10: once the GPU check has failed the page stays halted: no render
\* surface, no schema load, no loadRadar call, no drain, no spoke socket, no
\* heading socket and no timer, whatever descriptors arrive.
C10_HaltedForGood ==
  /\ [](webgpuAvailable = "no"
          => /\ pc = "halted"
             /\ ~renderer.constructed
             /\ ~renderer.ready
             /\ protobufPromise = "none"
             /\ drains = 0
             /\ sockets = {}
             /\ headingSocket = "none"
             /\ timers = << >>)
  /\ [][ webgpuAvailable = "no"
         => /\ webgpuAvailable' = "no"
            /\ last'.op = "radarLoaded"
            /\ calls' = << >> ]_vars

\* a descriptor with controls arrived after the check failed and was only
\* buffered
C10_Witness ==
  /\ webgpuAvailable = "no"
  /\ last.op = "radarLoaded"
  /\ last.d.controls
  /\ pendingRadarData = last.d

\* the entries of a heading message that carry the subscribed path
MatchingEntries(msg) == SelectSeq(msg.entries, LAMBDA e : e.match)

\* C11: after any interleaving of heading updates and mode toggles, the
\* rotation applied last to the render surface is -trueHeading in northUp
\* mode and 0 in headingUp mode; every toggle and every update for the
\* subscribed path applies a rotation; a heading message never changes the
\* mode and a toggle never changes trueHeading.
C11_RotationFollowsHeading ==
  /\ [](rotation.applied
          => rotation.value = IF headingMode = "northUp"
                                THEN 0 - trueHeading ELSE 0)
  /\ [][ (\/ last'.op = "toggle"
          \/ /\ last'.op = "headingMessage"
             /\ MatchingEntries(headingMsg') # << >>)
         => /\ rotation'.applied
            /\ calls' # << >>
            /\ calls'[1].fn = "setHeadingRotation" ]_vars
  /\ [][ last'.op = "headingMessage" => headingMode' = headingMode ]_vars
  /\ [][ last'.op = "toggle"
         => /\ trueHeading' = trueHeading
            /\ headingMode' # headingMode ]_vars

\* a heading of 2 was received in headingUp mode and the mode has then been
\* toggled to northUp: the rotation is -2
C11_Witness ==
  /\ last.op = "toggle"
  /\ headingMode = "northUp"
  /\ trueHeading = 2
  /\ rotation = [applied |-> TRUE, value |-> 0 - 2]

\* C12: every close of the heading socket schedules exactly one
\* resubscription after the fixed delay, whatever the number of closes
\* before it; the timer then opens a new heading socket, so after every
\* close a heading socket is open again in the end; never is more than one
\* heading socket open, and none is opened in standalone mode.
C12_HeadingResubscribes ==
  /\ [][ last'.op = "headingClose"
         => /\ headingOpen' = headingOpen - 1
            /\ headingTimers' = headingTimers + 1
            /\ calls' = << Call("setTimeout", HEADING_RETRY_DELAY, 0) >>
       ]_vars
  /\ [][ last'.op = "headingTimer"
         => /\ headingTimers' = headingTimers - 1
            /\ headingOpen' = headingOpen + 1
            /\ calls' = << Call("newHeadingSocket", 0, 0) >> ]_vars
  /\ [](headingOpen + headingTimers <= 1)
  /\ [](standaloneMode # "signalk" => headingOpen + headingTimers = 0)
  /\ (last.op = "headingClose") ~> (headingOpen = 1)

\* the heading socket has closed and the timer has opened a new one
C12_Witness ==
  /\ last.op = "headingTimer"
  /\ headingOpen = 1
  /\ headingTimers = 0
  /\ standaloneMode = "signalk"

\* the last handler was controlUpdate for a No Transmit control
NoTransmitStep == last'.op = "controlUpdate" /\ control'.kind = "No Transmit"

\* the zone a No Transmit control names: the number in its name, or 0
ZoneOf(c) == IF c.digits # NoValue THEN c.digits ELSE 0

\* C13: a No Transmit update with enabled = false for zone k, in whatever
\* state zone k is, leaves zone k cleared and every other zone as it was,
\* and ends without an exception; on a zone that is already cleared it
\* changes nothing, so applying it twice is the same as applying it once.
C13_DisabledClearsZone ==
  [][ (NoTransmitStep /\ ~control'.enabled)
      => /\ noTransmitAngles'[ZoneOf(control')] = Cleared
         /\ \A j \in ZoneIds \ {ZoneOf(control')} :
              noTransmitAngles'[j] = noTransmitAngles[j]
         /\ ~control'.thrown
         /\ noTransmitAngles[ZoneOf(control')] = Cleared
              => noTransmitAngles' = noTransmitAngles ]_vars

\* zone 1 has been cleared by a disabled update while zone 0 was never
\* written
C13_Witness ==
  /\ last.op = "controlUpdate"
  /\ control.kind = "No Transmit"
  /\ ~control.enabled
  /\ control.digits = 1
  /\ noTransmitAngles[1] = Cleared
  /\ noTransmitAngles[0] = Unwritten

\* C14: a No Transmit update with enabled = true for zone k, in whatever
\* state zone k is (never written and cleared included), ends without an
\* exception, writes the value into the start slot of zone k when the name
\* contains "start" and into the end slot otherwise, and leaves the other
\* slot and every other zone as they were.
C14_EnabledWritesSlot ==
  [][ (NoTransmitStep /\ control'.enabled)
      => LET k == ZoneOf(control')
         IN /\ ~control'.thrown
            /\ IF control'.start
                 THEN /\ noTransmitAngles'[k].start = control'.value
                      /\ noTransmitAngles'[k].end = noTransmitAngles[k].end
                 ELSE /\ noTransmitAngles'[k].end = control'.value
                      /\ noTransmitAngles'[k].start
                           = noTransmitAngles[k].start
            /\ \A j \in ZoneIds \ {k} :
                 noTransmitAngles'[j] = noTransmitAngles[j] ]_vars

\* formatRangeValue has been applied to a whole number of metres for a brand
\* other than Navico
FormattedOther ==
  /\ formatted.fn = "formatRangeValue"
  /\ formatted.brand # "Navico"
  /\ formatted.v2 % 2 = 0
  /\ formatted.out # NoText

\* C15: for a brand other than Navico and a whole number v of metres,
\* formatRangeValue gives a metric text exactly when v is near a multiple of
\* 25 (v <= 100), of 50 (100 < v <= 750) or of 500 (v > 750), near meaning a
\* remainder <= 1 or >= b - 1: the number v / 1000 and "km" from 1000 m on,
\* v and "m" below; every other v gets a text in "nm"; 500 gives "500 m",
\* 1000 gives "1 km" and 1852 gives "1 nm".
C15_MetricHeuristic ==
  FormattedOther =>
    LET v       == formatted.v2 \div 2
        out     == formatted.out
        near(b) == (v % b <= 1) \/ (v % b >= b - 1)
        metric  == \/ v <= 100 /\ near(25)
                   \/ v > 100 /\ v <= 750 /\ near(50)
                   \/ v > 750 /\ near(500)
    IN /\ (metric /\ v >= 1000)
            => out.unit = "km" /\ out.n * 1000 = v * out.d
       /\ (metric /\ v < 1000) => out = WholeText(v, "m")
       /\ ~metric => out.unit = "nm"
       /\ v = 500 => Render(out) = "500 m"
       /\ v = 1000 => Render(out) = "1 km"
       /\ v = 1852 => Render(out) = "1 nm"

\* 750 m is metric by the middle band and is given in metres
C15_Witness ==
  /\ FormattedOther
  /\ formatted.v2 = 1500
  /\ Render(formatted.out) = "750 m"

\* C16: formatRangeNautical gives "1/2 nm" for 926 m and "1/8 nm" for
\* 231.5 m; for Navico formatRangeValue gives "1 nm" for 1852 m and
\* "{v} m" below 1000 m.
C16_NauticalExamples ==
  /\ (/\ formatted.fn = "formatRangeNautical"
      /\ formatted.out # NoText
      /\ formatted.v2 = 1852)
       => Render(formatted.out) = "1/2 nm"
  /\ (/\ formatted.fn = "formatRangeNautical"
      /\ formatted.out # NoText
      /\ formatted.v2 = 463)
       => Render(formatted.out) = "1/8 nm"
  /\ (/\ formatted.fn = "formatRangeValue"
      /\ formatted.brand = "Navico"
      /\ formatted.out # NoText)
       => /\ formatted.v2 = 2 * NAUTICAL_MILE
               => Render(formatted.out) = "1 nm"
          /\ RoundMeters(formatted.v2) < 1000
               => formatted.out = WholeText(RoundMeters(formatted.v2), "m")

\* a legend has been built
LegendBuilt == legend.table # << >>

\* the legend entry of index i
LegendAt(i) == legend.table[i + 1]

\* C17: for every pixel value count the legend has 256 entries; entry 0 is
\* [0,0,0,0]; every entry from the effective count on (64 for a count below
\* 2) is [255,0,0,255]; every entry but entry 0 has alpha 255; for 64,
\* entry 63 is [255,0,0,255], and for 16, entry 200 is [255,0,0,255].
C17_LegendShape ==
  LegendBuilt =>
    LET effective == IF legend.pixelValues < 2
                       THEN 64 ELSE legend.pixelValues
    IN /\ Len(legend.table) = 256
       /\ LegendAt(0) = << 0, 0, 0, 0 >>
       /\ \A i \in 1..255 :
            /\ LegendAt(i)[4] = 255
            /\ i >= effective => LegendAt(i) = << 255, 0, 0, 255 >>
       /\ legend.pixelValues = 64 => LegendAt(63) = << 255, 0, 0, 255 >>
       /\ legend.pixelValues = 16 => LegendAt(200) = << 255, 0, 0, 255 >>

\* the legend for 16 pixel values: the gradient ends at entry 15 and entry
\* 200 is the overflow red
C17_Witness ==
  /\ LegendBuilt
  /\ legend.pixelValues = 16
  /\ LegendAt(1) = << 0, 85, 255, 255 >>
  /\ LegendAt(200) = << 255, 0, 0, 255 >>

\* the range calls a run of spokes asks for, starting from the range cur the
\* surface holds: setRange when a non-zero range differs from the surface's,
\* setCurrentRange for every non-zero range
RECURSIVE RangeCallsOf(_, _)
RangeCallsOf(spokes, cur) ==
  IF spokes = << >> THEN << >>
  ELSE LET r == Head(spokes).range
       IN (IF r > 0 /\ r # cur THEN << Call("setRange", r, 0) >> ELSE << >>)
          \o (IF r > 0 THEN << Call("setCurrentRange", r, 0) >> ELSE << >>)
          \o RangeCallsOf(Tail(spokes), IF r > 0 THEN r ELSE cur)

\* C18: for every dispatched spoke with a range > 0, setCurrentRange(range)
\* is called once, whether or not the surface's range changes, and
\* setRange(range) is called exactly when the range differs from the one
\* the surface holds; for a spoke without a range neither is called.
C18_CurrentRangeAlways ==
  [][ (last'.op = "message" /\ last'.frame.kind = "msg" /\ RadarMessage)
      => SelectSeq(calls',
                   LAMBDA c : c.fn \in {"setRange", "setCurrentRange"})
           = RangeCallsOf(last'.frame.spokes, renderer.range) ]_vars

\* two spokes of range 1 on a surface of another range: setCurrentRange is
\* called for both, setRange for the first only
C18_Witness ==
  /\ Decoded
  /\ Len(last.frame.spokes) = 2
  /\ \A i \in 1..2 : last.frame.spokes[i].range = 1
  /\ SelectSeq(calls, LAMBDA c : c.fn \in {"setRange", "setCurrentRange"})
       = << Call("setRange", 1, 0), Call("setCurrentRange", 1, 0),
            Call("setCurrentRange", 1, 0) >>

\* C19: radarLoaded with a descriptor without controls does nothing, whether
\* the render surface is ready or not: the pending buffer and the surface
\* stay as they are, no call is made, no socket is opened and no timer is
\* set.
C19_NoControlsNoOp ==
  [][ (last'.op = "radarLoaded" /\ ~last'.d.controls)
      => /\ calls' = << >>
         /\ UNCHANGED <<pendingRadarData, renderer, sockets, timers,
                        headingSocket, pc, drains, discarded>> ]_vars

\* a descriptor without controls arrived when the surface was ready and a
\* session existed
C19_Witness ==
  /\ last.op = "radarLoaded"
  /\ ~last.d.controls
  /\ renderer.ready
  /\ sockets # {}
  /\ calls = << >>

\* C20: a heading message that is no JSON, or that has no entry for the
\* subscribed path, leaves trueHeading, the heading mode and the rotation as
\* they are and makes no call; trueHeading is only ever written by an entry
\* for the subscribed path, and of several such entries in one message the
\* last one gives trueHeading its value.
C20_OnlyMatchingEntries ==
  /\ [][ (/\ last'.op = "headingMessage"
          /\ MatchingEntries(headingMsg') = << >>)
         => /\ UNCHANGED <<trueHeading, headingMode, rotation>>
            /\ calls' = << >> ]_vars
  /\ [][ (/\ last'.op = "headingMessage"
          /\ MatchingEntries(headingMsg') # << >>)
         => LET m == MatchingEntries(headingMsg')
            IN /\ trueHeading' = m[Len(m)].value
               /\ Len(calls') = Len(m) ]_vars
  /\ [][ trueHeading' # trueHeading
         => /\ last'.op = "headingMessage"
            /\ MatchingEntries(headingMsg') # << >> ]_vars

\* a message with two entries for the subscribed path, of values 1 and 2:
\* trueHeading is 2
C20_Witness ==
  /\ last.op = "headingMessage"
  /\ Len(headingMsg.entries) = 2
  /\ headingMsg.entries[1] = [match |-> TRUE, value |-> 1]
  /\ headingMsg.entries[2] = [match |-> TRUE, value |-> 2]
  /\ trueHeading = 2

\* C21: a spoke socket's close, the reconnect timer that calls loadRadar,
\* radarLoaded (the construction of a new session included) and the drain
\* that calls it leave the no-transmit zones, trueHeading and the heading
\* mode as they are, so these values survive every reconnect of the spoke
\* stream.
C21_SurvivesReconnect ==
  [][ last'.op \in {"close", "timer", "radarLoaded", "drain"}
      => UNCHANGED <<noTransmitAngles, trueHeading, headingMode>> ]_vars

\* the second session has been constructed after the first one's socket
\* closed and its timer fired, on a page where zone 1 is switched off, the
\* heading is 2 and the mode is north-up
C21_Witness ==
  /\ last.op = "radarLoaded"
  /\ last.d.seq = 2
  /\ sockets = {last.d}
  /\ timers = << >>
  /\ HasCall(calls, {"newWebSocket"})
  /\ noTransmitAngles[1] = Cleared
  /\ trueHeading = 2
  /\ headingMode = "northUp"

\* the range v is near a multiple of 1852 / den metres
NearFraction(v, den) ==
  LET r == (v * den) % NAUTICAL_MILE
  IN r <= den \/ r >= NAUTICAL_MILE - den

\* formatRangeValue has been applied to a whole number of metres that is
\* not metric, for a brand other than Navico
FormattedNautical ==
  /\ FormattedOther
  /\ formatted.out.unit = "nm"

\* the text of the first fraction of dens that v is near, coarsest first
\* (1 stands for whole miles), or of the quotient v / 1852 when there is none
FirstFractionText(v, dens) ==
  LET matching == {d \in dens : NearFraction(v, d)}
  IN IF matching = {}
       THEN NumberText(v, NAUTICAL_MILE, "nm")
       ELSE LET d == CHOOSE m \in matching : \A k \in matching : m <= k
                count == ((v + 1) * d) \div NAUTICAL_MILE
            IN IF d = 1 THEN WholeText(count, "nm")
                        ELSE FractionText(count, d, "nm")

\* C22: for a brand other than Navico and a whole number v of metres that
\* is not metric, formatRangeValue gives the first of whole miles, halves,
\* quarters, ..., 1/128 that v is near, as "{count}/{denom} nm" (a bare
\* count for whole miles), and the decimal v / 1852 only when v is near
\* none of the eight; above one nautical mile as well as below it.
C22_FractionsEverywhere ==
  FormattedNautical =>
    formatted.out = FirstFractionText(formatted.v2 \div 2,
                                      {1, 2, 4, 8, 16, 32, 64, 128})

\* C22 as amended: below 1851 m the text is the first of halves, quarters,
\* ..., 1/128 that v is near, and the decimal v / 1852 when v is near none
\* of the seven; from 1851 m on only whole miles are tested, and a v that
\* is not near a whole number of miles gets the decimal v / 1852.
C22_FractionsBelowOneMile ==
  FormattedNautical =>
    LET v == formatted.v2 \div 2
    IN formatted.out =
         IF v >= NAUTICAL_MILE - 1
           THEN FirstFractionText(v, {1})
           ELSE FirstFractionText(v, {2, 4, 8, 16, 32, 64, 128})

\* 2778 m, one and a half nautical miles, is given as the decimal
\* 2778 / 1852 and not as "3/2 nm"
C22_Witness ==
  /\ FormattedNautical
  /\ formatted.v2 = 5556
  /\ formatted.out.form = "decimal"
  /\ formatted.out.n = 2778
  /\ formatted.out.d = NAUTICAL_MILE
  /\ NearFraction(2778, 2)

\* the step constructs a session: radarLoaded, called by control.js or by
\* the drain, gets as far as opening the spoke socket
SessionStep ==
  /\ last'.op \in {"radarLoaded", "drain"}
  /\ HasCall(calls', {"newWebSocket"})

\* the session construction of this step found the power state to be
\* 'standby' or 'off': that is when it calls setStandbyMode (line 655)
SessionFoundStandby == HasCall(calls', {"setStandbyMode"})

\* C23: after every session construction, the first and every later one,
\* the standby flag of the render surface tells whether the power state
\* found at that moment is 'standby' or 'off', and after every power control
\* update whether the power value of the update is; so a session
\* constructed while the radar transmits leaves the surface out of standby
\* even if standby was set before.
C23_StandbyFollowsPower ==
  /\ [][ SessionStep => renderer'.standby = SessionFoundStandby ]_vars
  /\ [][ (/\ last'.op = "controlUpdate"
          /\ control'.kind = "power"
          /\ renderer.constructed)
         => renderer'.standby = IsStandby(control'.power) ]_vars

\* C24: in every reachable state at most one spoke socket is open, and a
\* step that opens a spoke socket (an early callback, the bootstrap drain,
\* the answer to loadRadar, a reconnect after a close) starts from a state
\* where none is open, so no two sessions draw the same spokes.
C24_OneSpokeSocket ==
  /\ [](Cardinality(sockets) <= 1)
  /\ [][ (sockets' \ sockets) # {} => sockets = {} ]_vars

\* C25: for every pixel value count (2, counts below 2 and counts above 256
\* included) each of the four channels of each of the 256 entries is an
\* integer in 0..255; the first entry of the gradient, entry 1, is
\* [0,85,255,255], and its last, the entry before the effective count, is
\* [255,0,0,255] where the table has it.
C25_ChannelsInRange ==
  LegendBuilt =>
    LET count == EffectivePixelValues(legend.pixelValues)
    IN /\ \A i \in 0..255 : \A ch \in 1..4 : LegendAt(i)[ch] \in 0..255
       /\ LegendAt(1) = << 0, 85, 255, 255 >>
       /\ count - 1 <= 255 => LegendAt(count - 1) = << 255, 0, 0, 255 >>

====
